---- MODULE Spec2Model ----
(***************************************************************************)
(* Model of the beetle-detector pipeline scripts:                          *)
(*   scripts/02_clean_and_export_yolo.py  filter_small_boxes               *)
(*   scripts/05_infer_cli.py              inference CLI                    *)
(* Python floats are modelled exactly: a normalized coordinate is k/Denom, *)
(* a quotient a/b is the pair <<a, b>> compared by cross-multiplication.   *)
(***************************************************************************)
EXTENDS Integers, Sequences, FiniteSets, TLC

VARIABLES
    \* ---- scripts/02_clean_and_export_yolo.py ----
    dataset,             \* the FiftyOne dataset: sequence of samples
    min_side, min_area,  \* arguments of filter_small_boxes
    fpc,                 \* position inside filter_small_boxes
    idx,                 \* number of samples the for loop has taken
    to_delete, total_boxes_before, total_boxes_after,
    runs,                \* observation: one record per call
    \* ---- scripts/05_infer_cli.py ----
    fs,                  \* names of the regular files in the image directory
    caseSensitive,       \* platform: does pathlib/glob matching respect case
    source,              \* args.source
    args,                \* command line: parse outcome and flags
    model_exists,        \* os.path.exists(args.model)
    pc,                  \* position inside main / process_batch_images
    image_files,         \* result of get_image_files
    results,             \* main's results list
    bi,                  \* images the batch loop has taken
    all_results, total_detections, total_time,
    stats,               \* avg_time and avg_fps of process_batch_images
    attempts,            \* observation: one record per process_single_image call
    detector_calls,      \* paths the detector was invoked on
    made_dirs,           \* output_dir has been created
    written,             \* annotated images written
    json_report,         \* content of inference_results.json
    caught,              \* the exception main's except clause caught, "" if none
    exit                 \* how main ended

cleanVars == <<dataset, min_side, min_area, fpc, idx, to_delete,
               total_boxes_before, total_boxes_after, runs>>

inferVars == <<fs, caseSensitive, source, args, model_exists, pc, image_files,
               results, bi, all_results, total_detections, total_time, stats,
               attempts, detector_calls, made_dirs, written, json_report, caught,
               exit>>

vars == <<cleanVars, inferVars>>

----------------------------------------------------------------------------
(* Bounds of the explored inputs *)
MaxSamples == 2      \* samples in the dataset
MaxBoxes == 3        \* boxes in the dataset, all samples together
MaxCalls == 2        \* successive calls of filter_small_boxes
Denom == 4           \* a normalized coordinate is k/Denom

\* Python None; labels and metadata are records, so None is one too
None == [py |-> "None"]

\* bounding_box = [x, y, w, h], Python index 2 is w and 3 is h (TLA+ 3 and 4)
BoxDims == {<<1, 4>>, <<2, 1>>, <<4, 4>>}
Detections == {[bounding_box |-> <<0, 0, wh[1], wh[2]>>] : wh \in BoxDims}
Metadatas == {None, [width |-> 16, height |-> 32]}
Thresholds == {<<8, 64>>, <<8, 100>>}

NumBoxes(det) == IF det = None THEN 0 ELSE Len(det.detections)

\* sample.detections: None, or a Detections label holding a (possibly empty) list
DetChoices(b) ==
    {None} \cup {[detections |-> l] : l \in UNION {[1..k -> Detections] : k \in 0..b}}

RECURSIVE Stores(_, _, _)
Stores(n, b, nextId) ==
    {<<>>} \cup
    (IF n = 0 THEN {}
     ELSE UNION {{<<[id |-> nextId, detections |-> d, metadata |-> m]>> \o r :
                     r \in Stores(n - 1, b - NumBoxes(d), nextId + 1)} :
                 d \in DetChoices(b), m \in Metadatas})

----------------------------------------------------------------------------
(* filter_small_boxes *)

RECURSIVE SelectIdx(_, _)
\* the elements of s at the positions in keepAt, in order
SelectIdx(s, keepAt) ==
    IF s = <<>> THEN <<>>
    ELSE LET n == Len(s)
             front == SelectIdx(SubSeq(s, 1, n - 1), keepAt)
         IN IF n \in keepAt THEN Append(front, s[n]) ELSE front

\* lines 40-45, in units of 1/Denom pixel (area: 1/Denom^2)
PixelW(d, sample) == d.bounding_box[3] * sample.metadata.width
PixelH(d, sample) == d.bounding_box[4] * sample.metadata.height

\* the side checks alone, without the area check
KeepBoxSidesOnly(d, sample, ms, ma) ==
    PixelW(d, sample) >= ms * Denom /\ PixelH(d, sample) >= ms * Denom

KeepBox(d, sample, ms, ma) ==
    LET w == PixelW(d, sample)
        h == PixelH(d, sample)
        area == w * h
    IN w >= ms * Denom /\ h >= ms * Denom /\ area >= ma * Denom * Denom

\* lines 36-46: the keep list of one sample
KeepList(sample, ms, ma) ==
    LET det == sample.detections IN
    SelectIdx(det.detections,
              {i \in 1..Len(det.detections) :
                  KeepBox(det.detections[i], sample, ms, ma)})

\* lines 40-41 read sample.metadata.width: AttributeError when metadata is None
MetadataFails(sample) ==
    /\ sample.detections # None
    /\ Len(sample.detections.detections) > 0
    /\ sample.metadata = None

\* line 31: `not det` is true for None only (a Detections label is truthy)
NotDet(sample) == sample.detections = None

\* a delete that drops the first listed sample only
DeleteSamplesFirstOnly(ds, ids) ==
    SelectIdx(ds, {i \in 1..Len(ds) : ids[1] # ds[i].id})

\* dataset.delete_samples(ids)
DeleteSamples(ds, ids) ==
    SelectIdx(ds, {i \in 1..Len(ds) : \A j \in 1..Len(ids) : ids[j] # ds[i].id})

\* a save that does not reach the store
SaveSampleLost(ds, i, keep) == ds

\* sample.save() of the sample at position i
SaveSample(ds, i, keep) == [ds EXCEPT ![i].detections.detections = keep]

\* the kept count reported in place of the removed count
RemovedBoxesKept(before, after) == after

\* line 65: total_boxes_before - total_boxes_after
RemovedBoxes(before, after) == before - after

\* line 63: (before - after) / before * 100
RemovalRateFails(before) == before = 0

\* the inference CLI is not running
InferIdle ==
    /\ fs = {} /\ caseSensitive = TRUE /\ source = None /\ args = None
    /\ model_exists = FALSE /\ pc = "off" /\ image_files = <<>> /\ results = <<>>
    /\ bi = 0 /\ all_results = <<>> /\ total_detections = 0 /\ total_time = 0
    /\ stats = None /\ attempts = <<>> /\ detector_calls = <<>>
    /\ made_dirs = FALSE /\ written = {} /\ json_report = None /\ caught = ""
    /\ exit = None

InitClean ==
    /\ InferIdle
    /\ dataset \in Stores(MaxSamples, MaxBoxes, 1)
    /\ \E t \in Thresholds : min_side = t[1] /\ min_area = t[2]
    /\ fpc = "idle"
    /\ idx = 0
    /\ to_delete = <<>>
    /\ total_boxes_before = 0
    /\ total_boxes_after = 0
    /\ runs = <<>>

\* lines 22-27
FilterBegin ==
    /\ fpc = "idle"
    /\ Len(runs) < MaxCalls
    /\ fpc' = "loop"
    /\ idx' = 0
    /\ to_delete' = <<>>
    /\ total_boxes_before' = 0
    /\ total_boxes_after' = 0
    /\ runs' = Append(runs, [input |-> dataset, output |-> dataset,
                             outcome |-> "running", deleted |-> 0, removed |-> 0,
                             boxes_after |-> 0, visited |-> 0])
    /\ UNCHANGED <<dataset, min_side, min_area, inferVars>>

\* records how the call ended: the store it leaves and what it returns
Finish(outcome, ds, del, rem) ==
    runs' = [runs EXCEPT ![Len(runs)] =
                [@ EXCEPT !.output = ds, !.outcome = outcome,
                          !.deleted = del, !.removed = rem,
                          !.boxes_after = total_boxes_after,
                          !.visited = idx]]

\* lines 29-55: one iteration of `for sample in dataset`; sample.metadata
\* may be missing and sample.save() may raise
FilterVisit ==
    /\ fpc = "loop"
    /\ idx < Len(dataset)
    /\ LET sample == dataset[idx + 1] IN
       IF NotDet(sample)
       THEN /\ to_delete' = Append(to_delete, sample.id)
            /\ idx' = idx + 1
            /\ UNCHANGED <<dataset, fpc, total_boxes_before, total_boxes_after, runs>>
       ELSE IF MetadataFails(sample)
       THEN /\ total_boxes_before' = total_boxes_before + Len(sample.detections.detections)
            /\ fpc' = "idle"
            /\ Finish("AttributeError", dataset, 0, 0)
            /\ UNCHANGED <<dataset, idx, to_delete, total_boxes_after>>
       ELSE LET keep == KeepList(sample, min_side, min_area) IN
            /\ total_boxes_before' = total_boxes_before + Len(sample.detections.detections)
            /\ IF keep # <<>>
               THEN \E saved \in BOOLEAN :
                       IF saved
                       THEN /\ dataset' = SaveSample(dataset, idx + 1, keep)
                            /\ total_boxes_after' = total_boxes_after + Len(keep)
                            /\ idx' = idx + 1
                            /\ UNCHANGED <<to_delete, fpc, runs>>
                       ELSE /\ fpc' = "idle"
                            /\ Finish("SaveError", dataset, 0, 0)
                            /\ UNCHANGED <<dataset, idx, to_delete, total_boxes_after>>
               ELSE /\ to_delete' = Append(to_delete, sample.id)
                    /\ idx' = idx + 1
                    /\ UNCHANGED <<dataset, total_boxes_after, fpc, runs>>
    /\ UNCHANGED <<min_side, min_area, inferVars>>

\* lines 57-65: batch delete, report, return
FilterFinish ==
    /\ fpc = "loop"
    /\ idx = Len(dataset)
    /\ LET ds == IF to_delete # <<>> THEN DeleteSamples(dataset, to_delete)
                 ELSE dataset IN
       /\ dataset' = ds
       /\ IF RemovalRateFails(total_boxes_before)
          THEN Finish("ZeroDivisionError", ds, 0, 0)
          ELSE Finish("returned", ds, Len(to_delete),
                      RemovedBoxes(total_boxes_before, total_boxes_after))
    /\ fpc' = "idle"
    /\ UNCHANGED <<min_side, min_area, idx, to_delete,
                   total_boxes_before, total_boxes_after, inferVars>>

NextClean == FilterBegin \/ FilterVisit \/ FilterFinish

SpecClean == InitClean /\ [][NextClean]_vars

----------------------------------------------------------------------------
(* scripts/05_infer_cli.py: strings are sequences of one-character strings *)

Letters == <<"a", "b", "c", "d", "e", "f", "g", "h", "i", "j", "k", "l", "m",
             "n", "o", "p", "q", "r", "s", "t", "u", "v", "w", "x", "y", "z">>
Caps == <<"A", "B", "C", "D", "E", "F", "G", "H", "I", "J", "K", "L", "M",
          "N", "O", "P", "Q", "R", "S", "T", "U", "V", "W", "X", "Y", "Z">>

IsLetter(c) == \E i \in 1..Len(Letters) : Letters[i] = c
IsCap(c) == \E i \in 1..Len(Caps) : Caps[i] = c
IndexIn(c, s) == CHOOSE i \in 1..Len(s) : s[i] = c

\* code point of a character
Ord(c) ==
    IF IsLetter(c) THEN 96 + IndexIn(c, Letters)
    ELSE IF IsCap(c) THEN 64 + IndexIn(c, Caps)
    ELSE IF c = "." THEN 46
    ELSE 95 \* "_"

\* str.lower() and str.upper()
LowerChr(c) == IF IsCap(c) THEN Letters[IndexIn(c, Caps)] ELSE c
UpperChr(c) == IF IsLetter(c) THEN Caps[IndexIn(c, Letters)] ELSE c
Lower(s) == [i \in 1..Len(s) |-> LowerChr(s[i])]
Upper(s) == [i \in 1..Len(s) |-> UpperChr(s[i])]

\* str comparison: lexicographic by code point
RECURSIVE StrLess(_, _)
StrLess(a, b) ==
    IF b = <<>> THEN FALSE
    ELSE IF a = <<>> THEN TRUE
    ELSE IF Ord(a[1]) # Ord(b[1]) THEN Ord(a[1]) < Ord(b[1])
    ELSE StrLess(Tail(a), Tail(b))

RECURSIVE Insert(_, _)
Insert(x, s) ==
    IF s = <<>> THEN <<x>>
    ELSE IF StrLess(s[1], x) THEN <<s[1]>> \o Insert(x, Tail(s))
    ELSE <<x>> \o s

RECURSIVE Sorted(_)
\* sorted(image_files)
Sorted(s) == IF s = <<>> THEN <<>> ELSE Insert(s[1], Sorted(Tail(s)))

\* position of the last "." of a name, 0 when there is none (str.rfind + 1)
LastDot(name) ==
    LET dots == {i \in 1..Len(name) : name[i] = "."}
    IN IF dots = {} THEN 0 ELSE CHOOSE i \in dots : \A j \in dots : j <= i

\* PurePath.suffix: the last dot starts the suffix unless it is the first or
\* the last character of the name
Suffix(name) ==
    LET i == LastDot(name)
    IN IF 1 < i /\ i < Len(name) THEN SubSeq(name, i, Len(name)) ELSE <<>>

\* PurePath.stem
Stem(name) ==
    LET i == LastDot(name)
    IN IF 1 < i /\ i < Len(name) THEN SubSeq(name, 1, i - 1) ELSE name

EndsWith(name, tail) ==
    /\ Len(tail) <= Len(name)
    /\ SubSeq(name, Len(name) - Len(tail) + 1, Len(name)) = tail

\* line 197
image_extensions ==
    {<<".", "j", "p", "g">>, <<".", "j", "p", "e", "g">>, <<".", "p", "n", "g">>,
     <<".", "b", "m", "p">>, <<".", "t", "i", "f", "f">>, <<".", "w", "e", "b", "p">>}

RECURSIVE SetToSeq(_)
\* a set listed in some order (directory order, set iteration order)
SetToSeq(S) ==
    IF S = {} THEN <<>>
    ELSE LET x == CHOOSE x \in S : TRUE IN <<x>> \o SetToSeq(S \ {x})

RECURSIVE Flatten(_)
Flatten(ss) == IF ss = <<>> THEN <<>> ELSE ss[1] \o Flatten(Tail(ss))

\* the platform's name matching: exact, or ignoring case
SameName(a, b, cs) == IF cs THEN a = b ELSE Lower(a) = Lower(b)
TailMatches(name, tail, cs) ==
    IF cs THEN EndsWith(name, tail) ELSE EndsWith(Lower(name), Lower(tail))

\* source_path.glob("*" + ext): the direct entries, hidden ones too, ending in ext
PathGlob(files, ext, cs) ==
    SetToSeq({f \in files : TailMatches(f, ext, cs)})

\* glob(source): a literal path lists itself when it exists; "*" + tail lists
\* the matching entries that do not start with a dot
GlobGlob(src, files, cs) ==
    IF src.kind = "path"
    THEN IF \E f \in files : SameName(f, src.name, cs) THEN <<src.name>> ELSE <<>>
    ELSE SetToSeq({f \in files : f[1] # "." /\ TailMatches(f, src.tail, cs)})

\* lines 208-211
DirGlobs(files, cs) ==
    Flatten([k \in 1..Cardinality(image_extensions) |->
                LET ext == SetToSeq(image_extensions)[k]
                IN PathGlob(files, ext, cs) \o PathGlob(files, Upper(ext), cs)])

IsFile(src, files, cs) ==
    src.kind = "path" /\ \E f \in files : SameName(f, src.name, cs)
IsDir(src) == src.kind = "dir"

\* lines 186-218
get_image_files(src, files, cs) ==
    LET found ==
        IF IsFile(src, files, cs)
        THEN IF Lower(Suffix(src.name)) \in image_extensions
             THEN <<src.name>> ELSE <<>>
        ELSE IF IsDir(src)
        THEN DirGlobs(files, cs)
        ELSE SelectSeq(GlobGlob(src, files, cs),
                       LAMBDA f : Lower(Suffix(f)) \in image_extensions)
    IN Sorted(found)

(* Inputs of the inference CLI *)
MaxFiles == 3        \* files in the image directory

FileNames ==
    {<<"a", ".", "j", "p", "g">>, <<"b", ".", "P", "N", "G">>,
     <<"c", ".", "t", "x", "t">>, <<"a", ".", "J", "P", "G">>,
     <<"e", ".", "J", "p", "g">>, <<".", "j", "p", "g">>}

\* a directory of the platform: no two entries the platform takes for the same
Directories(cs) ==
    {d \in SUBSET FileNames :
        /\ Cardinality(d) <= MaxFiles
        /\ \A f \in d : \A g \in d : SameName(f, g, cs) => f = g}

\* args.source: a path naming a file (present or not), the directory, or a
\* wildcard "*" + tail
Sources ==
    {[kind |-> "path", name |-> n] : n \in FileNames \cup {<<"z", ".", "p", "n", "g">>}}
    \cup {[kind |-> "dir"]}
    \cup {[kind |-> "pattern", tail |-> t] :
             t \in {<<>>, <<".", "j", "p", "g">>, <<".", "t", "x", "t">>}}

\* lines 243-258: parse_args exits on a usage error (2) or on --help (0)
ArgChoices ==
    {[parse |-> p, no_save |-> FALSE, save_json |-> FALSE, device |-> ""] :
        p \in {"error", "help"}}
    \cup {[parse |-> "ok", no_save |-> ns, save_json |-> sj, device |-> dv] :
             ns \in BOOLEAN, sj \in BOOLEAN, dv \in {"", "cpu"}}

\* what the detector does on an image: raise, or n boxes after t milliseconds
DetectorOutcomes ==
    {[error |-> TRUE, n |-> 0, ms |-> 0]}
    \cup {[error |-> FALSE, n |-> o[1], ms |-> o[2]] :
             o \in {<<0, 0>>, <<0, 10>>, <<1, 10>>, <<2, 20>>, <<1, 30>>}}

\* the filter is not running
CleanIdle ==
    /\ dataset = <<>> /\ min_side = 0 /\ min_area = 0 /\ fpc = "off" /\ idx = 0
    /\ to_delete = <<>> /\ total_boxes_before = 0 /\ total_boxes_after = 0
    /\ runs = <<>>

InferDefaults ==
    /\ results = <<>>
    /\ bi = 0 /\ all_results = <<>> /\ total_detections = 0 /\ total_time = 0
    /\ stats = None /\ attempts = <<>> /\ detector_calls = <<>>
    /\ made_dirs = FALSE /\ written = {} /\ json_report = None /\ caught = ""
    /\ exit = None

----------------------------------------------------------------------------
(* get_image_files called on its own *)

InitResolve ==
    /\ CleanIdle
    /\ InferDefaults
    /\ (caseSensitive = TRUE \/ caseSensitive = FALSE)
    /\ fs \in Directories(caseSensitive)
    /\ source \in Sources
    /\ args = None
    /\ model_exists = FALSE
    /\ image_files = <<>>
    /\ pc = "get_image_files"

CallGetImageFiles ==
    /\ pc = "get_image_files"
    /\ image_files' = get_image_files(source, fs, caseSensitive)
    /\ pc' = "returned"
    /\ UNCHANGED <<cleanVars, fs, caseSensitive, source, args, model_exists,
                   results, bi, all_results, total_detections, total_time, stats,
                   attempts, detector_calls, made_dirs, written, json_report,
                   caught, exit>>

NextResolve == CallGetImageFiles

SpecResolve == InitResolve /\ [][NextResolve]_vars

----------------------------------------------------------------------------
(* process_single_image *)

ImageWorlds ==
    {[exists |-> FALSE, det |-> [error |-> TRUE, n |-> 0, ms |-> 0]]}
    \cup {[exists |-> TRUE, det |-> d] : d \in DetectorOutcomes}

\* no existence check before the detector runs
ImageMissingUnchecked(exists) == FALSE

\* line 57: not os.path.exists(image_path)
ImageMissing(exists) == ~exists

\* lines 57-104: what one call does and returns
ProcessSingleImage(image_path, exists, det, save_result) ==
    IF ImageMissing(exists)
    THEN [raised |-> "FileNotFoundError", detector_called |-> FALSE,
          makedirs |-> FALSE, wrote |-> {}, result_info |-> None]
    ELSE IF det.error \/ ~exists
    THEN [raised |-> "DetectorError", detector_called |-> TRUE,
          makedirs |-> FALSE, wrote |-> {}, result_info |-> None]
    ELSE LET detections == [k \in 1..det.n |->
                               [class_id |-> 0, class_name |-> "Beetle"]]
             saving == save_result /\ detections # <<>>
             output_path == IF saving
                            THEN [file |-> Stem(image_path) \o <<"_result.jpg">>]
                            ELSE None
         IN [raised |-> "", detector_called |-> TRUE, makedirs |-> saving,
             wrote |-> IF saving THEN {output_path} ELSE {},
             result_info |-> [image_path |-> image_path,
                              inference_time_ms |-> det.ms,
                              num_detections |-> Len(detections),
                              detections |-> detections,
                              output_path |-> output_path]]

\* the side effects of a call r on image_path, and its record in `attempts`
Effects(image_path, w, r) ==
    /\ attempts' = Append(attempts, [image_path |-> image_path, exists |-> w.exists,
                                     det |-> w.det, out |-> r])
    /\ detector_calls' = IF r.detector_called
                         THEN Append(detector_calls, image_path)
                         ELSE detector_calls
    /\ made_dirs' = (made_dirs \/ r.makedirs)
    /\ written' = written \cup r.wrote

----------------------------------------------------------------------------
(* Python numbers: a float quotient a/b is [num |-> a, den |-> b] *)

Num(n) == [num |-> n, den |-> 1]
NaN == [nan |-> TRUE]
ZeroDivisionError == [raised |-> "ZeroDivisionError"]

\* x / y
TrueDiv(x, y) ==
    IF y.num = 0 THEN ZeroDivisionError
    ELSE [num |-> x.num * y.den, den |-> x.den * y.num]

RECURSIVE SumSeq(_)
\* sum(...)
SumSeq(xs) == IF xs = <<>> THEN 0 ELSE xs[1] + SumSeq(Tail(xs))

\* the average divided out without looking at the list
AvgTimeUnguarded(total, rs) == TrueDiv(Num(total), Num(Len(rs)))

\* line 148
AvgTime(total, rs) ==
    IF rs # <<>> THEN TrueDiv(Num(total), Num(Len(rs))) ELSE Num(0)

\* line 149
AvgFps(avg_time) ==
    IF avg_time = ZeroDivisionError THEN ZeroDivisionError
    ELSE IF avg_time.num > 0 THEN TrueDiv(Num(1000), avg_time) ELSE Num(0)

\* np.mean: nan for an empty list
NpMean(xs) == IF xs = <<>> THEN NaN ELSE [num |-> SumSeq(xs), den |-> Len(xs)]

\* lines 169-179: the document save_results_json writes (timestamp left out)
SaveResultsJson(rs) ==
    [summary |->
        [total_images |-> Len(rs),
         total_detections |-> SumSeq([i \in 1..Len(rs) |-> rs[i].num_detections]),
         avg_inference_time_ms |->
             NpMean([i \in 1..Len(rs) |-> rs[i].inference_time_ms])],
     results |-> rs]

----------------------------------------------------------------------------
(* main and process_batch_images *)

Returned(code) == [returned |-> code]
SystemExit(code) == [raised |-> "SystemExit", code |-> code]

\* lines 316-318: except Exception: return 1
MainExcept(e) == Returned(1)

\* an except clause for missing files only
BatchCatchesMissingOnly(e) == e = "FileNotFoundError"

\* line 143: except Exception
BatchCatches(e) == TRUE

\* an empty image list treated as success
NoImagesExitOk(files) == IF files = <<>> THEN Returned(0) ELSE None

\* lines 272-274
NoImagesExit(files) == IF files = <<>> THEN Returned(1) ELSE None

\* a run of the CLI on a case-sensitive platform (SpecResolve explores
\* get_image_files on both kinds of platform)
InitInfer ==
    /\ CleanIdle
    /\ InferDefaults
    /\ caseSensitive = TRUE
    /\ fs \in Directories(caseSensitive)
    /\ source \in Sources
    /\ args \in ArgChoices
    /\ model_exists \in BOOLEAN
    /\ image_files = <<>>
    /\ pc = "parse"

inferLocals == <<image_files, results, bi, all_results, total_detections,
                 total_time, stats>>
inferEffects == <<attempts, detector_calls, made_dirs, written, json_report>>
inferInputs == <<fs, caseSensitive, source, args, model_exists>>

\* main ends through its except clause
Fail(e) ==
    /\ caught' = e
    /\ exit' = MainExcept(e)
    /\ pc' = "done"

\* line 258
MainParse ==
    /\ pc = "parse"
    /\ IF args.parse = "ok"
       THEN pc' = "load" /\ UNCHANGED exit
       ELSE /\ exit' = SystemExit(IF args.parse = "help" THEN 0 ELSE 2)
            /\ pc' = "done"
    /\ UNCHANGED <<cleanVars, inferInputs, inferLocals, inferEffects, caught>>

\* lines 262-267: load_model, model.to(device); either library call may raise
MainLoadModel ==
    /\ pc = "load"
    /\ IF ~model_exists
       THEN Fail("FileNotFoundError")
       ELSE \E ok \in BOOLEAN :
               IF ok THEN pc' = "resolve" /\ UNCHANGED <<caught, exit>>
               ELSE Fail("ModelError")
    /\ UNCHANGED <<cleanVars, inferInputs, inferLocals, inferEffects>>

\* lines 270-281
MainResolve ==
    /\ pc = "resolve"
    /\ LET files == get_image_files(source, fs, caseSensitive) IN
       /\ image_files' = files
       /\ IF NoImagesExit(files) # None
          THEN exit' = NoImagesExit(files) /\ pc' = "done"
          ELSE /\ pc' = IF Len(files) = 1 THEN "single" ELSE "batch"
               /\ UNCHANGED exit
    /\ UNCHANGED <<cleanVars, inferInputs, results, bi, all_results,
                   total_detections, total_time, stats, inferEffects, caught>>

\* lines 283-296: single-image mode
MainSingle ==
    /\ pc = "single"
    /\ \E w \in ImageWorlds :
          LET r == ProcessSingleImage(image_files[1], w.exists, w.det, ~args.no_save)
          IN /\ Effects(image_files[1], w, r)
             /\ IF r.raised # ""
                THEN Fail(r.raised) /\ UNCHANGED results
                ELSE /\ results' = <<r.result_info>>
                     /\ pc' = "finish"
                     /\ UNCHANGED <<caught, exit>>
    /\ UNCHANGED <<cleanVars, inferInputs, image_files, bi, all_results,
                   total_detections, total_time, stats, json_report>>

\* lines 122-126
BatchBegin ==
    /\ pc = "batch"
    /\ all_results' = <<>>
    /\ total_detections' = 0
    /\ total_time' = 0
    /\ bi' = 0
    /\ pc' = "batch_loop"
    /\ UNCHANGED <<cleanVars, inferInputs, image_files, results, stats,
                   inferEffects, caught, exit>>

\* lines 128-145: one iteration of the batch loop
BatchImage ==
    /\ pc = "batch_loop"
    /\ bi < Len(image_files)
    /\ \E w \in ImageWorlds :
          LET image_path == image_files[bi + 1]
              r == ProcessSingleImage(image_path, w.exists, w.det, ~args.no_save)
          IN /\ Effects(image_path, w, r)
             /\ IF r.raised = ""
                THEN /\ all_results' = Append(all_results, r.result_info)
                     /\ total_detections' =
                            total_detections + r.result_info.num_detections
                     /\ total_time' = total_time + r.result_info.inference_time_ms
                     /\ bi' = bi + 1
                     /\ UNCHANGED <<pc, caught, exit>>
                ELSE IF BatchCatches(r.raised)
                THEN /\ bi' = bi + 1
                     /\ UNCHANGED <<all_results, total_detections, total_time,
                                    pc, caught, exit>>
                ELSE /\ Fail(r.raised)
                     /\ UNCHANGED <<all_results, total_detections, total_time, bi>>
    /\ UNCHANGED <<cleanVars, inferInputs, image_files, results, stats, json_report>>

\* lines 148-157 and 300-302: statistics, return to main
BatchStats ==
    /\ pc = "batch_loop"
    /\ bi = Len(image_files)
    /\ LET avg_time == AvgTime(total_time, all_results)
           avg_fps == AvgFps(avg_time)
       IN /\ stats' = [avg_time |-> avg_time, avg_fps |-> avg_fps]
          /\ IF avg_time = ZeroDivisionError \/ avg_fps = ZeroDivisionError
             THEN Fail("ZeroDivisionError") /\ UNCHANGED results
             ELSE /\ results' = all_results
                  /\ pc' = "finish"
                  /\ UNCHANGED <<caught, exit>>
    /\ UNCHANGED <<cleanVars, inferInputs, image_files, bi, all_results,
                   total_detections, total_time, inferEffects>>

\* lines 304-314: optional JSON report, return 0
MainFinish ==
    /\ pc = "finish"
    /\ IF args.save_json
       THEN /\ made_dirs' = TRUE
            /\ json_report' = SaveResultsJson(results)
       ELSE UNCHANGED <<made_dirs, json_report>>
    /\ exit' = Returned(0)
    /\ pc' = "done"
    /\ UNCHANGED <<cleanVars, inferInputs, inferLocals, attempts, detector_calls,
                   written, caught>>

NextInfer ==
    \/ MainParse
    \/ MainLoadModel
    \/ MainResolve
    \/ MainSingle
    \/ BatchBegin
    \/ BatchImage
    \/ BatchStats
    \/ MainFinish

SpecInfer == InitInfer /\ [][NextInfer]_vars

----------------------------------------------------------------------------
(* process_batch_images called on its own, on any list of paths *)

PathChoices ==
    {<<"a", ".", "j", "p", "g">>, <<"b", ".", "P", "N", "G">>,
     <<"z", ".", "p", "n", "g">>}

InitBatch ==
    /\ CleanIdle
    /\ InferDefaults
    /\ caseSensitive = TRUE
    /\ fs = {}
    /\ source = None
    /\ args \in {a \in ArgChoices : a.parse = "ok" /\ ~a.save_json /\ a.device = ""}
    /\ model_exists = TRUE
    /\ image_files \in UNION {[1..k -> PathChoices] : k \in 0..MaxFiles}
    /\ pc = "batch"

NextBatch == BatchBegin \/ BatchImage \/ BatchStats

SpecBatch == InitBatch /\ [][NextBatch]_vars

----------------------------------------------------------------------------
(* Properties of filter_small_boxes, stated over the finished calls *)

\* a box meets the thresholds: pixel_w >= min_side, pixel_h >= min_side and
\* pixel_w * pixel_h >= min_area, with pixel_w = box.w * image.width and
\* pixel_h = box.h * image.height (box.w = bounding_box[3] / Denom)
Meets(box, meta) ==
    /\ box.bounding_box[3] * meta.width >= min_side * Denom
    /\ box.bounding_box[4] * meta.height >= min_side * Denom
    /\ (box.bounding_box[3] * meta.width) * (box.bounding_box[4] * meta.height)
           >= min_area * Denom * Denom

BoxesOf(s) == IF s.detections = None THEN <<>> ELSE s.detections.detections

MeetingAt(s) ==
    IF s.metadata = None THEN {}
    ELSE {i \in 1..Len(BoxesOf(s)) : Meets(BoxesOf(s)[i], s.metadata)}

\* the boxes of s that meet the thresholds, in their original order
RECURSIVE MeetingFrom(_, _)
MeetingFrom(s, i) ==
    IF i > Len(BoxesOf(s)) THEN <<>>
    ELSE IF i \in MeetingAt(s) THEN <<BoxesOf(s)[i]>> \o MeetingFrom(s, i + 1)
    ELSE MeetingFrom(s, i + 1)

RECURSIVE SumOver(_, _)
SumOver(ds, i) ==
    IF i > Len(ds) THEN 0
    ELSE (Len(BoxesOf(ds[i])) - Cardinality(MeetingAt(ds[i]))) + SumOver(ds, i + 1)

RECURSIVE CountBoxes(_, _)
CountBoxes(ds, i) ==
    IF i > Len(ds) THEN 0 ELSE Len(BoxesOf(ds[i])) + CountBoxes(ds, i + 1)

IdsOf(ds) == {ds[i].id : i \in 1..Len(ds)}

ReturnedRuns == {k \in 1..Len(runs) : runs[k].outcome = "returned"}

\* C1: after filter_small_boxes returns, every input sample with at least one
\* box meeting the three thresholds is still in the collection, exactly once,
\* and its detections are exactly the meeting boxes in their original order,
\* each unaltered; nothing else of the sample changed.
C1_SurvivorsKeepExactlyMeetingBoxes ==
    \A k \in ReturnedRuns :
        \A i \in 1..Len(runs[k].input) :
            LET s == runs[k].input[i] IN
            MeetingAt(s) # {} =>
                /\ Cardinality({j \in 1..Len(runs[k].output) :
                                   runs[k].output[j].id = s.id}) = 1
                /\ \A j \in 1..Len(runs[k].output) :
                       runs[k].output[j].id = s.id =>
                           /\ BoxesOf(runs[k].output[j]) = MeetingFrom(s, 1)
                           /\ runs[k].output[j].metadata = s.metadata

\* a returned call met a sample of three boxes whose middle box alone failed
C1_Witness ==
    \E k \in ReturnedRuns :
        \E i \in 1..Len(runs[k].input) :
            LET s == runs[k].input[i] IN
            /\ Len(BoxesOf(s)) = 3
            /\ MeetingAt(s) = {1, 3}
            /\ BoxesOf(s)[1] # BoxesOf(s)[3]

\* C2: after filter_small_boxes returns, every input sample all of whose boxes
\* fail a threshold (also one with no detections) is gone from the collection
\* and adds nothing to boxes_after; every remaining sample has at least one
\* detection and all its detections meet the thresholds.
C2_AllFailingSamplesDeleted ==
    \A k \in ReturnedRuns :
        /\ \A i \in 1..Len(runs[k].input) :
               MeetingAt(runs[k].input[i]) = {} =>
                   runs[k].input[i].id \notin IdsOf(runs[k].output)
        /\ runs[k].boxes_after = CountBoxes(runs[k].output, 1)
        /\ \A j \in 1..Len(runs[k].output) :
               LET s == runs[k].output[j] IN
               /\ Len(BoxesOf(s)) >= 1
               /\ MeetingAt(s) = 1..Len(BoxesOf(s))

\* a returned call deleted a sample without detections and a sample whose
\* boxes all failed, and kept another sample
C2_Witness ==
    \E k \in ReturnedRuns :
        /\ \E i \in 1..Len(runs[k].input) :
               /\ runs[k].input[i].detections = None
               /\ runs[k].input[i].id \notin IdsOf(runs[k].output)
        /\ \E i \in 1..Len(runs[k].input) :
               /\ Len(BoxesOf(runs[k].input[i])) >= 1
               /\ MeetingAt(runs[k].input[i]) = {}
               /\ runs[k].input[i].id \notin IdsOf(runs[k].output)

\* C3: the returned removed-box count equals the number of boxes failing a
\* threshold over all input samples, kept or deleted, and the returned
\* deleted-sample count equals the number of samples removed from the collection.
C3_ReturnedCountsAreExact ==
    \A k \in ReturnedRuns :
        /\ runs[k].removed = SumOver(runs[k].input, 1)
        /\ runs[k].deleted = Len(runs[k].input) - Len(runs[k].output)
        /\ runs[k].deleted = Cardinality(IdsOf(runs[k].input) \ IdsOf(runs[k].output))

\* a returned call removed boxes from a surviving sample and from a deleted one
C3_Witness ==
    \E k \in ReturnedRuns :
        /\ runs[k].deleted >= 1
        /\ \E i \in 1..Len(runs[k].input) :
               LET s == runs[k].input[i] IN
               /\ s.id \in IdsOf(runs[k].output)
               /\ Cardinality(MeetingAt(s)) < Len(BoxesOf(s))
        /\ \E i \in 1..Len(runs[k].input) :
               LET s == runs[k].input[i] IN
               /\ s.id \notin IdsOf(runs[k].output)
               /\ Len(BoxesOf(s)) >= 1

\* C4: a second run right after a first one that returned, same store and
\* thresholds, completes, deletes no sample, removes no box and leaves the
\* store as the first run left it.
C4_SecondRunIsNoOp ==
    (/\ Len(runs) >= 2
     /\ runs[1].outcome = "returned"
     /\ runs[2].outcome # "running")
    => /\ runs[2].outcome = "returned"
       /\ runs[2].deleted = 0
       /\ runs[2].removed = 0
       /\ runs[2].output = runs[1].output

\* the call ended because a collaborator call raised
CollaboratorFailed(run) == run.outcome \in {"AttributeError", "SaveError"}

\* C11: filter_small_boxes has no error of its own: whenever every
\* collaborator call succeeds, also on an empty collection and on one in
\* which no sample has a box, the call ends by returning the deleted-sample
\* and removed-box counts.
C11_ReturnsUnlessCollaboratorFails ==
    \A k \in 1..Len(runs) :
        (runs[k].outcome # "running" /\ ~CollaboratorFailed(runs[k])) =>
            /\ runs[k].outcome = "returned"
            /\ runs[k].deleted = Len(runs[k].input) - Len(runs[k].output)
            /\ runs[k].removed = SumOver(runs[k].input, 1)

\* the ids of a store, in order
IdSeq(ds) == [i \in 1..Len(ds) |-> ds[i].id]

\* the sample has a box to convert and no image metadata
LacksMetadata(s) == BoxesOf(s) # <<>> /\ s.metadata = None

\* C12: deletion is one batch after every sample was visited: while the loop
\* runs no sample leaves the collection; when a collaborator call fails on
\* the k-th sample the error leaves the call there (a sample without
\* metadata is never skipped), every input sample is still in the
\* collection, the samples before the k-th that were saved keep their
\* filtered detections, and everything else is as it was.
C12_FailureLeavesStoreUndeleted ==
    /\ fpc = "loop" => IdSeq(dataset) = IdSeq(runs[Len(runs)].input)
    /\ \A r \in 1..Len(runs) :
           LET run == runs[r]
               k == run.visited + 1 IN
           /\ (run.outcome # "running" /\ \E i \in 1..Len(run.input) :
                                               LacksMetadata(run.input[i]))
                  => CollaboratorFailed(run)
           /\ CollaboratorFailed(run) =>
                  /\ k <= Len(run.input)
                  /\ IF run.outcome = "AttributeError"
                     THEN LacksMetadata(run.input[k])
                     ELSE MeetingAt(run.input[k]) # {}
                  /\ \A i \in 1..(k - 1) : ~LacksMetadata(run.input[i])
                  /\ IdSeq(run.output) = IdSeq(run.input)
                  /\ run.output = dataset \/ r < Len(runs)
                  /\ \A i \in 1..(k - 1) :
                         /\ run.output[i].metadata = run.input[i].metadata
                         /\ IF MeetingAt(run.input[i]) # {}
                            THEN BoxesOf(run.output[i]) = MeetingFrom(run.input[i], 1)
                            ELSE run.output[i] = run.input[i]
                  /\ \A i \in k..Len(run.input) : run.output[i] = run.input[i]

\* a call failed on the second sample, which had no metadata, after the first
\* sample had been saved with a box removed
C12_Witness ==
    \E r \in 1..Len(runs) :
        /\ runs[r].outcome = "AttributeError"
        /\ runs[r].visited = 1
        /\ Len(BoxesOf(runs[r].input[1])) = 2
        /\ Len(BoxesOf(runs[r].output[1])) = 1
        /\ dataset = runs[r].output

\* a call failed on the second sample after the first had been marked for
\* deletion, and the first is still in the collection
C12_WitnessMarkedNotDeleted ==
    \E r \in 1..Len(runs) :
        /\ CollaboratorFailed(runs[r])
        /\ runs[r].visited = 1
        /\ MeetingAt(runs[r].input[1]) = {}
        /\ Len(runs[r].output) = 2

----------------------------------------------------------------------------
(* Properties of the inference CLI *)

\* the image was there and the detector did not raise
Succeeded(a) == a.exists /\ ~a.det.error

RECURSIVE SuccessesFrom(_, _)
\* the attempts that succeeded, in order, from position i on
SuccessesFrom(att, i) ==
    IF i > Len(att) THEN <<>>
    ELSE IF Succeeded(att[i]) THEN <<att[i]>> \o SuccessesFrom(att, i + 1)
    ELSE SuccessesFrom(att, i + 1)

RECURSIVE TotalOf(_, _, _)
\* the sum of field f of records rs, from position i on
TotalOf(rs, f, i) == IF i > Len(rs) THEN 0 ELSE rs[i][f] + TotalOf(rs, f, i + 1)

BatchOver == pc \in {"finish", "done"}

\* C5: in process_batch_images a failing image (missing path, detector
\* error) never ends the batch: every image of the list is attempted, in
\* order, and the returned list holds exactly one record per image that
\* succeeded, in input order.
C5_BatchIsolatesFailures ==
    LET ok == SuccessesFrom(attempts, 1) IN
    /\ Len(attempts) <= Len(image_files)
    /\ \A i \in 1..Len(attempts) : attempts[i].image_path = image_files[i]
    /\ Len(all_results) = Len(ok)
    /\ \A k \in 1..Len(ok) :
           /\ all_results[k].image_path = ok[k].image_path
           /\ all_results[k].inference_time_ms = ok[k].det.ms
           /\ all_results[k].num_detections = ok[k].det.n
    /\ BatchOver =>
           /\ Len(attempts) = Len(image_files)
           /\ caught = ""
           /\ results = all_results

\* a finished batch of three paths whose second was missing returned two records
C5_Witness ==
    /\ BatchOver
    /\ Len(image_files) = 3
    /\ ~attempts[2].exists
    /\ Succeeded(attempts[1]) /\ Succeeded(attempts[3])
    /\ Len(results) = 2

\* C6: process_single_image on a path that does not exist raises
\* FileNotFoundError at once: no detector call, no output directory, no
\* annotated image, no record; in single-image mode main then ends with
\* nothing done.
C6_MissingImageFailsFirst ==
    /\ \A i \in 1..Len(attempts) :
           ~attempts[i].exists =>
               /\ attempts[i].out.raised = "FileNotFoundError"
               /\ ~attempts[i].out.detector_called
               /\ ~attempts[i].out.makedirs
               /\ attempts[i].out.wrote = {}
               /\ attempts[i].out.result_info = None
    /\ (Len(image_files) = 1 /\ Len(attempts) = 1 /\ ~attempts[1].exists) =>
           /\ detector_calls = <<>>
           /\ ~made_dirs
           /\ written = {}
           /\ results = <<>>
           /\ json_report = None
           /\ pc = "done"

\* single-image mode was given a path that had vanished
C6_Witness ==
    /\ Len(image_files) = 1
    /\ Len(attempts) = 1
    /\ ~attempts[1].exists
    /\ args.save_json /\ ~args.no_save

\* C7: the batch statistics cover the returned records only: the detection
\* total is the sum of their num_detections, the average time is the sum of
\* their times over their count (0 for no record), FPS is 1000 / average (0
\* for average 0), and no batch, empty or all-failing, divides by zero.
C7_BatchStatistics ==
    /\ caught # "ZeroDivisionError"
    /\ stats # None =>
           /\ stats.avg_time # ZeroDivisionError
           /\ stats.avg_fps # ZeroDivisionError
           /\ total_detections = TotalOf(results, "num_detections", 1)
           /\ IF results = <<>>
              THEN stats.avg_time.num = 0
              ELSE stats.avg_time.num * Len(results) =
                       TotalOf(results, "inference_time_ms", 1) * stats.avg_time.den
           /\ IF stats.avg_time.num = 0
              THEN stats.avg_fps.num = 0
              ELSE stats.avg_fps.num * stats.avg_time.num =
                       1000 * stats.avg_time.den * stats.avg_fps.den

\* the statistics of a batch of which every image failed
C7_Witness ==
    /\ stats # None
    /\ Len(image_files) >= 2
    /\ results = <<>>

\* the statistics of an empty batch
C7_WitnessEmptyBatch == stats # None /\ image_files = <<>>

\* records of 10 ms and 30 ms: average 20 ms, 50 FPS
C7_WitnessAverage ==
    /\ stats # None
    /\ Len(results) = 2
    /\ results[1].inference_time_ms = 10 /\ results[2].inference_time_ms = 30
    /\ stats.avg_time.num = 20 * stats.avg_time.den
    /\ stats.avg_fps.num = 50 * stats.avg_fps.den

\* C8: in the written report summary.total_images is the number of records,
\* summary.total_detections the sum of their num_detections and
\* summary.avg_inference_time_ms the mean of their times, 0 for no record.
C8_ReportSummary ==
    json_report # None =>
        LET sm == json_report.summary
            rs == json_report.results IN
        /\ rs = results
        /\ sm.total_images = Len(rs)
        /\ sm.total_detections = TotalOf(rs, "num_detections", 1)
        /\ sm.avg_inference_time_ms # NaN
        /\ IF rs = <<>>
           THEN sm.avg_inference_time_ms.num = 0
           ELSE sm.avg_inference_time_ms.num * Len(rs) =
                    TotalOf(rs, "inference_time_ms", 1) * sm.avg_inference_time_ms.den

Range(s) == {s[i] : i \in 1..Len(s)}

\* the extension of a path, as pathlib gives it, in lower case
Extension(f) == Lower(Suffix(f))

\* C9: get_image_files returns a sorted list without duplicates of paths whose
\* extension is in the allow-list, case ignored: a file source is kept iff
\* its extension matches; a directory gives its direct entries with a
\* lower-case or upper-case allow-list extension; any other source is
\* glob-expanded and filtered; a source matching nothing gives [].
C9_ResolutionIsSortedUniqueImages ==
    pc = "returned" =>
        /\ \A i \in 1..Len(image_files) - 1 :
               ~StrLess(image_files[i + 1], image_files[i])
        /\ \A i \in 1..Len(image_files) : \A j \in 1..Len(image_files) :
               image_files[i] = image_files[j] => i = j
        /\ \A i \in 1..Len(image_files) : Extension(image_files[i]) \in image_extensions
        /\ IsFile(source, fs, caseSensitive) =>
               image_files = IF Extension(source.name) \in image_extensions
                             THEN <<source.name>> ELSE <<>>
        /\ IsDir(source) =>
               Range(image_files) =
                   {f \in fs : \E e \in image_extensions :
                                   Suffix(f) = e \/ Suffix(f) = Upper(e)}
        /\ (~IsFile(source, fs, caseSensitive) /\ ~IsDir(source)) =>
               Range(image_files) =
                   {f \in Range(GlobGlob(source, fs, caseSensitive)) :
                       Extension(f) \in image_extensions}

\* C10 as stated: main always returns 0 or 1 and never raises.
C10_AlwaysReturnsZeroOrOne ==
    pc = "done" => exit \in {Returned(0), Returned(1)}

\* C10, amended: once the command line has parsed, main returns 1 when the
\* model file is missing, when the source resolves to no image (nothing is
\* then inferred) or when an exception reaches its except clause (a failure of
\* the only image included), and 0 otherwise; a command line that does not
\* parse, or --help, leaves main through SystemExit (2, or 0).
C10_ExitCodes ==
    pc = "done" =>
        IF args.parse # "ok"
        THEN /\ exit = SystemExit(IF args.parse = "help" THEN 0 ELSE 2)
             /\ attempts = <<>>
        ELSE /\ exit \in {Returned(0), Returned(1)}
             /\ exit = Returned(1) <=>
                    (~model_exists \/ caught # "" \/ image_files = <<>>)
             /\ image_files = <<>> => attempts = <<>>
             /\ (Len(image_files) = 1 /\ Len(attempts) = 1
                     /\ attempts[1].out.raised # "") => exit = Returned(1)

\* main ended with 1 because the source resolved to no image
C10_Witness ==
    /\ pc = "done"
    /\ args.parse = "ok"
    /\ model_exists
    /\ caught = ""
    /\ image_files = <<>>
    /\ exit = Returned(1)

====
